---------------------------- MODULE Spec2Model ----------------------------
(***************************************************************************)
(* Model of design-pattern/service-locator/service-locator.cpp:            *)
(* the ServiceDB type-indexed store and the per-capability Locator         *)
(* (AudioLocator, LogLocator) with its static m_service pointer.           *)
(*                                                                         *)
(* A pointer value is a triple <<kind, type, serial>>:                     *)
(*   <<"nullptr", "", 0>>        the null pointer                          *)
(*   <<"null", "NullAudio", 0>>  &Locator::m_nullService                   *)
(*   <<"sdb", "ConsoleAudio", n>> the element of ServiceDB::m_db           *)
(*   <<"ext", "ConsoleAudio", i>> an instance owned by the caller          *)
(***************************************************************************)
EXTENDS Integers, Sequences, FiniteSets, TLC

\* Number of caller-owned implementation instances per concrete type.
MaxExt == 2

\* Number of destructions (of a caller's instance or of the database).
MaxDestroyed == 1

\* The two threads that call provide() concurrently.
Threads == {1, 2}

\* using AudioLocator = Locator<IAudioService, NullAudio>;
\* using LogLocator = Locator<ILogService, NullLog>;
Locators == {"Audio", "Log"}

\* TNullService of each Locator alias.
NullServiceType(l) == IF l = "Audio" THEN "NullAudio" ELSE "NullLog"

\* The concrete type deriving from the Locator's TService interface.
ConcreteType(l) == IF l = "Audio" THEN "ConsoleAudio" ELSE "ConsoleLog"

\* ServiceDB<ConsoleAudio, ConsoleLog> sdb;
DbTypes == {"ConsoleAudio", "ConsoleLog"}

\* inline static TService* m_service = nullptr;
NullPtr == <<"nullptr", "", 0>>

\* &m_nullService of Locator l (inline static TNullService m_nullService).
NullServiceAddr(l) == <<"null", NullServiceType(l), 0>>

\* Identity of the m_db element of type T whose serial is n.
DbInstance(T, n) == <<"sdb", T, n>>

\* Instances of the Locator's concrete type that the caller owns itself.
ExtInstances(l) == {<<"ext", ConcreteType(l), i>> : i \in 1..MaxExt}

VARIABLES
    m_db,        \* ServiceDB::m_db: serial of the instance held per type
    m_service,   \* Locator<..>::m_service, one per Locator alias
    initCalled,  \* history: init() has been called on the Locator
    writes,      \* history: the last two init/provide calls per Locator
    got,         \* history: every reference get<T>() has returned
    lastCall,    \* the call that has just returned, with its result
    destroyed,   \* the instances whose owner has destroyed them
    thr          \* the threads running provide() concurrently

vars == <<m_db, m_service, initCalled, writes, got, lastCall, destroyed, thr>>

\* std::tuple<TServices...> m_db: every element default-constructed once.
NewDb == [T \in DbTypes |-> 1]

\* Mutant: get<TService> hands out the first element whatever the type.
DbGet_first(db, T) == DbInstance("ConsoleAudio", db["ConsoleAudio"])

\* TService& get() { return std::get<TService>(m_db); }
DbGet(db, T) == DbInstance(T, db[T])

\* Mutant: init() forgets the assignment.
InitBinding_unset(ms, l) == ms

\* Mutant: init() only arms an unset Locator.
InitBinding_keep(ms, l) ==
    IF ms[l] = NullPtr THEN [ms EXCEPT ![l] = NullServiceAddr(l)] ELSE ms

\* static void init() { m_service = &m_nullService; }
InitBinding(ms, l) == [ms EXCEPT ![l] = NullServiceAddr(l)]

\* Mutant: getService() falls back to the null service when the bound
\* instance has been destroyed.
GetServiceResult_checked(ms, l) ==
    IF \E d \in destroyed : d.obj = ms[l] THEN NullServiceAddr(l) ELSE ms[l]

\* Mutant: getService() hands out the null service instead of m_service.
GetServiceResult_null(ms, l) == NullServiceAddr(l)

\* static TService* getService() { return m_service; }
GetServiceResult(ms, l) == ms[l]

\* Mutant: provide() keeps a service that was already provided.
ProvideBinding_first(ms, l, service) ==
    IF ms[l] \in {NullPtr, NullServiceAddr(l)}
    THEN [ms EXCEPT ![l] = service] ELSE ms

\* Mutant: provide() falls back to the null service on a null argument.
ProvideBinding_nullcheck(ms, l, service) ==
    [ms EXCEPT ![l] = IF service = NullPtr THEN NullServiceAddr(l)
                      ELSE service]

\* Mutant: m_service shared by every Locator instantiation.
ProvideBinding_shared(ms, l, service) == [k \in Locators |-> service]

\* static void provide(TService* service) { m_service = service; }
ProvideBinding(ms, l, service) == [ms EXCEPT ![l] = service]

\* Virtual call p->playSound(id): the outputs the call can produce.
\* NullAudio::playSound and ConsoleAudio::playSound print their own tag;
\* a call through any other pointer is undefined.
playSound(p, id) ==
    IF p[1] = "null" /\ p[2] = "NullAudio"
        THEN {<<"NullAudio::playsound", id>>}
    ELSE IF p[1] \in {"sdb", "ext"} /\ p[2] = "ConsoleAudio"
        THEN {<<"ConsoleAudio::playsound", id>>}
    ELSE {<<"NullAudio::playsound", id>>, <<"ConsoleAudio::playsound", id>>,
          <<"crash", id>>}

\* Virtual call p->log(msg): the outputs the call can produce.
log(p, msg) ==
    IF p[1] = "null" /\ p[2] = "NullLog"
        THEN {<<"NullLog::log", msg>>}
    ELSE IF p[1] \in {"sdb", "ext"} /\ p[2] = "ConsoleLog"
        THEN {<<"ConsoleLog::log", msg>>}
    ELSE {<<"NullLog::log", msg>>, <<"ConsoleLog::log", msg>>,
          <<"crash", msg>>}

\* The last two entries of the write history, newest last.
Remember(ws, w) == IF Len(ws) = 0 THEN <<w>> ELSE <<ws[Len(ws)], w>>

NoCall == [op |-> "none", loc |-> "", arg |-> NullPtr, ret |-> NullPtr,
           raised |-> "none"]

\* The pointers a caller can pass to Locator l's provide(TService*):
\* nullptr, &sdb.get<T>(), its own instances, and a pointer it has just
\* obtained from getService() of the same Locator.
ProvideArgs(l) ==
    {NullPtr, DbGet(m_db, ConcreteType(l))} \cup ExtInstances(l)
    \cup (IF lastCall.op = "getService" /\ lastCall.loc = l
          THEN {lastCall.ret} ELSE {})

\* No thread has been started.
NoThreads == [loc |-> "", pc |-> [t \in Threads |-> "none"],
              arg |-> [t \in Threads |-> NullPtr], race |-> FALSE,
              last |-> 0]

\* The instances destroyed so far.
Destroyed == {d.obj : d \in destroyed}

Init ==
    /\ m_db = NewDb
    /\ m_service = [l \in Locators |-> NullPtr]
    /\ initCalled = [l \in Locators |-> FALSE]
    /\ writes = [l \in Locators |-> <<>>]
    /\ got = [T \in DbTypes |-> {}]
    /\ lastCall = NoCall
    /\ destroyed = {}
    /\ thr = NoThreads

\* sdb.get<T>()
get(T) ==
    /\ got' = [got EXCEPT ![T] = @ \cup {DbGet(m_db, T)}]
    /\ lastCall' = [op |-> "get", loc |-> T, arg |-> NullPtr,
                    ret |-> DbGet(m_db, T), raised |-> "none"]
    /\ UNCHANGED <<m_db, m_service, initCalled, writes, destroyed, thr>>

\* Locator<..>::init()
init(l) ==
    /\ m_service' = InitBinding(m_service, l)
    /\ initCalled' = [initCalled EXCEPT ![l] = TRUE]
    /\ writes' = [writes EXCEPT ![l] =
                     Remember(@, [op |-> "init", arg |-> NullPtr])]
    /\ lastCall' = [op |-> "init", loc |-> l, arg |-> NullPtr,
                    ret |-> NullPtr, raised |-> "none"]
    /\ UNCHANGED <<m_db, got, destroyed, thr>>

\* Mutant: getService() arms an unset Locator before returning.
getService_lazy(l) ==
    /\ m_service' = IF m_service[l] = NullPtr
                    THEN [m_service EXCEPT ![l] = NullServiceAddr(l)]
                    ELSE m_service
    /\ lastCall' = [op |-> "getService", loc |-> l, arg |-> NullPtr,
                    ret |-> m_service'[l], raised |-> "none"]
    /\ UNCHANGED <<m_db, initCalled, writes, got, destroyed, thr>>

\* Locator<..>::getService()
getService(l) ==
    /\ lastCall' = [op |-> "getService", loc |-> l, arg |-> NullPtr,
                    ret |-> GetServiceResult(m_service, l),
                    raised |-> "none"]
    /\ UNCHANGED <<m_db, m_service, initCalled, writes, got, destroyed, thr>>

\* Locator<..>::provide(service)
provide(l, service) ==
    /\ m_service' = ProvideBinding(m_service, l, service)
    /\ writes' = [writes EXCEPT ![l] =
                     Remember(@, [op |-> "provide", arg |-> service])]
    /\ lastCall' = [op |-> "provide", loc |-> l, arg |-> service,
                    ret |-> NullPtr, raised |-> "none"]
    /\ UNCHANGED <<m_db, initCalled, got, destroyed, thr>>

Next ==
    \/ \E T \in DbTypes : get(T)
    \/ \E l \in Locators : init(l)
    \/ \E l \in Locators : getService(l)
    \/ \E l \in Locators : \E service \in ProvideArgs(l) : provide(l, service)

Spec == Init /\ [][Next]_vars

\* The Locators whose m_service points at instance x.
BoundTo(x) == {l \in Locators : m_service[l] = x}

\* The caller destroys an instance it owns while a Locator points at it
\* (virtual ~IAudioService() / ~ILogService() = default): nothing but the
\* instance is touched.
destroyExt(x) ==
    /\ Cardinality(destroyed) < MaxDestroyed
    /\ x \notin Destroyed
    /\ BoundTo(x) # {}
    /\ destroyed' = destroyed \cup {[obj |-> x, bound |-> BoundTo(x)]}
    /\ lastCall' = [op |-> "destroy", loc |-> "", arg |-> x,
                    ret |-> NullPtr, raised |-> "none"]
    /\ UNCHANGED <<m_db, m_service, initCalled, writes, got, thr>>

\* sdb goes out of scope at the end of main while a Locator points at
\* one of its elements: every element of m_db is destroyed; the static
\* Locators outlive it.
destroyDb ==
    /\ Cardinality(destroyed) < MaxDestroyed
    /\ \A T \in DbTypes : DbGet(m_db, T) \notin Destroyed
    /\ \E T \in DbTypes : BoundTo(DbGet(m_db, T)) # {}
    /\ destroyed' = destroyed \cup
           {[obj |-> DbGet(m_db, T), bound |-> BoundTo(DbGet(m_db, T))] :
                T \in DbTypes}
    /\ lastCall' = [op |-> "destroy", loc |-> "sdb", arg |-> NullPtr,
                    ret |-> NullPtr, raised |-> "none"]
    /\ UNCHANGED <<m_db, m_service, initCalled, writes, got, thr>>

\* The Locator's calls together with the end of the instances' lifetime
\* (provide takes &sdb.get<T>() as one of its arguments).
LifetimeNext ==
    \/ \E l \in Locators : init(l)
    \/ \E l \in Locators : getService(l)
    \/ \E l \in Locators : \E service \in ProvideArgs(l) : provide(l, service)
    \/ \E l \in Locators : \E x \in ExtInstances(l) : destroyExt(x)
    \/ destroyDb

LifetimeSpec == Init /\ [][LifetimeNext]_vars

\* A pointer value assembled from parts of two different stores.
Torn == <<"torn", "", 0>>

\* m_service is a plain TService*: two provide() calls that store to it
\* at the same time are a data race, after which it may hold anything.
RaceOutcomes(l) ==
    {NullPtr, NullServiceAddr(l), Torn, DbGet(m_db, ConcreteType(l))}
    \cup ExtInstances(l)

\* The instances a thread can pass to Locator l's provide().
ThreadArgs(l) == {DbGet(m_db, ConcreteType(l))} \cup ExtInstances(l)

\* The main thread initialises a Locator before any thread is started.
mainInit(l) ==
    /\ thr.loc = ""
    /\ init(l)

\* Two threads are started: thread 1 is to call provide(a) and thread 2
\* provide(b), both on the initialised Locator l.
spawn(l, a, b) ==
    /\ thr.loc = ""
    /\ initCalled[l]
    /\ thr' = [loc |-> l, pc |-> [t \in Threads |-> "ready"],
               arg |-> (1 :> a @@ 2 :> b), race |-> FALSE, last |-> 0]
    /\ UNCHANGED <<m_db, m_service, initCalled, writes, got, lastCall,
                   destroyed>>

\* Thread t enters provide() and starts the store m_service = service;
\* the store races when the other thread's store is under way.
storeBegin(t) ==
    /\ thr.pc[t] = "ready"
    /\ thr' = [thr EXCEPT !.pc[t] = "storing",
                          !.race = @ \/ \E u \in Threads \ {t} :
                                           thr.pc[u] = "storing"]
    /\ UNCHANGED <<m_db, m_service, initCalled, writes, got, lastCall,
                   destroyed>>

\* Thread t's store completes and its provide() returns.
storeEnd(t) ==
    /\ thr.pc[t] = "storing"
    /\ thr' = [thr EXCEPT !.pc[t] = "done", !.last = t]
    /\ IF thr.race
       THEN \E v \in RaceOutcomes(thr.loc) :
                m_service' = [m_service EXCEPT ![thr.loc] = v]
       ELSE m_service' = ProvideBinding(m_service, thr.loc, thr.arg[t])
    /\ writes' = [writes EXCEPT ![thr.loc] =
                     Remember(@, [op |-> "provide", arg |-> thr.arg[t]])]
    /\ lastCall' = [op |-> "provide", loc |-> thr.loc, arg |-> thr.arg[t],
                    ret |-> NullPtr, raised |-> "none"]
    /\ UNCHANGED <<m_db, initCalled, got, destroyed>>

\* getService() while no store is under way.
quietGetService(l) ==
    /\ \A t \in Threads : thr.pc[t] # "storing"
    /\ getService(l)

ConcNext ==
    \/ \E T \in DbTypes : get(T)
    \/ \E l \in Locators : mainInit(l)
    \/ \E l \in Locators : \E a \in ThreadArgs(l) : \E b \in ThreadArgs(l) :
           spawn(l, a, b)
    \/ \E t \in Threads : storeBegin(t)
    \/ \E t \in Threads : storeEnd(t)
    \/ \E l \in Locators : quietGetService(l)

ConcSpec == Init /\ [][ConcNext]_vars

---------------------------------------------------------------------------
\* Helpers for the properties.

LastWrite(l) == writes[l][Len(writes[l])]

\* The Locator's state as the description names it.
LocState(ms, ic, l) ==
    IF ~ic[l] THEN "Uninitialized"
    ELSE IF ms[l] = NullServiceAddr(l) THEN "Pointing-at-Null"
    ELSE "Pointing-at-Provided"


\* getService() on Locator l is the call that has just returned.
Returned(l) == lastCall.op = "getService" /\ lastCall.loc = l

---------------------------------------------------------------------------
\* C1 (as claimed): once init() has been called on a Locator, its
\* m_service is never the null pointer again, and getService() never
\* returns the null pointer.
C1_NonNullAfterInit ==
    \A l \in Locators :
        initCalled[l] =>
            /\ m_service[l] # NullPtr
            /\ (Returned(l) => lastCall.ret # NullPtr)

\* C2 (as claimed): getService() on a Locator whose init() was never
\* called raises InvalidStateError instead of returning a pointer.
C2_GetServiceBeforeInitFails ==
    \A l \in Locators :
        (Returned(l) /\ ~initCalled[l]) =>
            lastCall.raised = "InvalidStateError"

\* C3 (as claimed): provide(x) on a Locator whose init() was never called
\* raises InvalidStateError, binds nothing and does not initialise.
C3_ProvideBeforeInitFails ==
    \A l \in Locators :
        (lastCall.op = "provide" /\ lastCall.loc = l /\ ~initCalled[l]) =>
            /\ lastCall.raised = "InvalidStateError"
            /\ m_service[l] = NullPtr

\* C4: when init() is the most recent write on a Locator (no provide()
\* since), getService() returns that Locator's own null implementation.
C4_DefaultToNull ==
    \A l \in Locators :
        (Returned(l) /\ Len(writes[l]) > 0 /\ LastWrite(l).op = "init") =>
            lastCall.ret = NullServiceAddr(l)

C4_Witness ==
    /\ Returned("Log")
    /\ writes["Log"] = <<[op |-> "init", arg |-> NullPtr]>>
    /\ lastCall.ret = NullServiceAddr("Log")

\* C5: when provide(x) is the most recent write on an initialised Locator,
\* getService() returns exactly x: the same instance, and not the null
\* implementation unless x is the null implementation itself.
C5_Override ==
    \A l \in Locators :
        (Returned(l) /\ initCalled[l] /\ LastWrite(l).op = "provide") =>
            /\ lastCall.ret = LastWrite(l).arg
            /\ (LastWrite(l).arg # NullServiceAddr(l)
                    => lastCall.ret # NullServiceAddr(l))

C5_Witness ==
    /\ Returned("Audio")
    /\ initCalled["Audio"]
    /\ LastWrite("Audio") =
           [op |-> "provide", arg |-> DbGet(m_db, "ConsoleAudio")]
    /\ lastCall.ret = DbInstance("ConsoleAudio", 1)

\* C6: when the two most recent writes on a Locator are provide(a) then
\* provide(b), getService() returns b, and not a when a differs from b.
C6_LastWriterWins ==
    \A l \in Locators :
        (/\ Returned(l)
         /\ Len(writes[l]) = 2
         /\ writes[l][1].op = "provide"
         /\ writes[l][2].op = "provide") =>
            /\ lastCall.ret = writes[l][2].arg
            /\ (writes[l][1].arg # writes[l][2].arg
                    => lastCall.ret # writes[l][1].arg)

C6_Witness ==
    /\ Returned("Audio")
    /\ writes["Audio"] =
           <<[op |-> "provide", arg |-> DbInstance("ConsoleAudio", 1)],
             [op |-> "provide", arg |-> <<"ext", "ConsoleAudio", 1>>]>>
    /\ lastCall.ret = <<"ext", "ConsoleAudio", 1>>

\* C7 (as claimed): init() on an already initialised Locator leaves its
\* binding unchanged.
C7_ReinitIsNoOp ==
    [][\A l \in Locators :
          (init(l) /\ initCalled[l]) => m_service'[l] = m_service[l]]_vars

\* C7 (amended): init() on an already initialised Locator rebinds it to
\* the Locator's own null implementation whatever was bound before, and
\* changes nothing else.
C7_ReinitResetsToNull ==
    [][\A l \in Locators :
          (init(l) /\ initCalled[l]) =>
              /\ m_service'[l] = NullServiceAddr(l)
              /\ \A k \in Locators \ {l} : m_service'[k] = m_service[k]
              /\ m_db' = m_db]_vars

C7_Witness ==
    /\ lastCall.op = "init" /\ lastCall.loc = "Audio"
    /\ writes["Audio"] =
           <<[op |-> "provide", arg |-> DbInstance("ConsoleAudio", 1)],
             [op |-> "init", arg |-> NullPtr]>>
    /\ initCalled["Audio"]
    /\ m_service["Audio"] = NullServiceAddr("Audio")

\* C8: a provide() on Locator X, with any argument, leaves every other
\* Locator Y as it was: same m_service, same initialised flag, same state.
C8_Independence ==
    [][\A X \in Locators :
          (lastCall'.op = "provide" /\ lastCall'.loc = X
              /\ provide(X, lastCall'.arg)) =>
              \A Y \in Locators \ {X} :
                  /\ m_service'[Y] = m_service[Y]
                  /\ initCalled'[Y] = initCalled[Y]
                  /\ LocState(m_service', initCalled', Y)
                         = LocState(m_service, initCalled, Y)]_vars

C8_Witness ==
    /\ lastCall.op = "provide" /\ lastCall.loc = "Audio"
    /\ lastCall.arg = DbInstance("ConsoleAudio", 1)
    /\ m_service["Audio"] = DbInstance("ConsoleAudio", 1)
    /\ LocState(m_service, initCalled, "Log") = "Pointing-at-Provided"
    /\ m_service["Log"] = <<"ext", "ConsoleLog", 1>>

\* C9: every get<T>() returns the one instance of T made when the
\* database was constructed, whatever calls ran in between, and the
\* instances returned for two distinct types are distinct.
C9_DatabaseUniqueness ==
    /\ \A T \in DbTypes : got[T] \subseteq {DbInstance(T, NewDb[T])}
    /\ \A A \in DbTypes : \A B \in DbTypes \ {A} : got[A] \cap got[B] = {}
    /\ lastCall.op = "get" =>
           lastCall.ret = DbInstance(lastCall.loc, NewDb[lastCall.loc])

C9_Witness ==
    /\ lastCall.op = "get" /\ lastCall.loc = "ConsoleLog"
    /\ got["ConsoleAudio"] # {} /\ got["ConsoleLog"] # {}
    /\ m_service["Audio"] = DbInstance("ConsoleAudio", 1)
    /\ initCalled["Log"]

\* C10 (as claimed): provide(nullptr) on an initialised Locator moves it
\* back to Pointing-at-Null, and the next getService() returns the
\* Locator's null implementation.
C10_ProvideNullReverts ==
    \A l \in Locators :
        (initCalled[l] /\ Len(writes[l]) > 0
            /\ LastWrite(l) = [op |-> "provide", arg |-> NullPtr]) =>
            /\ LocState(m_service, initCalled, l) = "Pointing-at-Null"
            /\ (Returned(l) => lastCall.ret = NullServiceAddr(l))

\* The calls of main() up to line 127: both Locators initialised, then
\* provide on the Audio Locator only, with the database's ConsoleAudio.
SampleScenario ==
    /\ initCalled["Audio"] /\ initCalled["Log"]
    /\ writes["Audio"] =
           <<[op |-> "init", arg |-> NullPtr],
             [op |-> "provide", arg |-> DbGet(m_db, "ConsoleAudio")]>>
    /\ writes["Log"] = <<[op |-> "init", arg |-> NullPtr]>>

\* C11: in the sample scenario AudioLocator::getService() is the
\* database's ConsoleAudio and playSound(1) prints the console tag,
\* LogLocator::getService() is the NullLog and log prints the null tag,
\* and neither pointer is null.
C11_SampleScenario ==
    SampleScenario =>
        /\ GetServiceResult(m_service, "Audio") = DbInstance("ConsoleAudio", 1)
        /\ GetServiceResult(m_service, "Log") = NullServiceAddr("Log")
        /\ GetServiceResult(m_service, "Audio") # NullPtr
        /\ GetServiceResult(m_service, "Log") # NullPtr
        /\ playSound(GetServiceResult(m_service, "Audio"), 1)
               = {<<"ConsoleAudio::playsound", 1>>}
        /\ log(GetServiceResult(m_service, "Log"), "sound played")
               = {<<"NullLog::log", "sound played">>}
        /\ (Returned("Audio") =>
               lastCall.ret = DbInstance("ConsoleAudio", 1))
        /\ (Returned("Log") => lastCall.ret = NullServiceAddr("Log"))

C11_Witness ==
    /\ SampleScenario
    /\ got["ConsoleAudio"] = {DbInstance("ConsoleAudio", 1)}
    /\ got["ConsoleLog"] = {}
    /\ Returned("Log")
    /\ lastCall.ret = NullServiceAddr("Log")
    /\ m_service["Audio"] = DbInstance("ConsoleAudio", 1)

\* C14: a step in which getService() of a Locator returns changes no
\* Locator's binding, no initialised flag and not the database, in any
\* state of the Locator; a getService() that directly follows another
\* one on the same Locator returns the same reference.
C14_GetServiceReadOnly ==
    [][\A l \in Locators :
          (lastCall'.op = "getService" /\ lastCall'.loc = l) =>
              /\ m_service' = m_service
              /\ initCalled' = initCalled
              /\ m_db' = m_db
              /\ lastCall'.ret = m_service[l]
              /\ (Returned(l) => lastCall'.ret = lastCall.ret)]_vars

C14_Witness ==
    /\ Returned("Audio")
    /\ ~initCalled["Audio"]
    /\ lastCall.ret = NullPtr
    /\ m_service["Audio"] = NullPtr
    /\ m_service["Log"] = <<"ext", "ConsoleLog", 1>>

\* The value the most recent init() or provide() on Locator l wrote.
LastWritten(l) ==
    IF Len(writes[l]) = 0 THEN NullPtr
    ELSE IF LastWrite(l).op = "init" THEN NullServiceAddr(l)
    ELSE LastWrite(l).arg

C13_BorrowedNotValidated ==
    /\ [](\A l \in Locators :
            (/\ Len(writes[l]) > 0
             /\ LastWrite(l).op = "provide"
             /\ LastWrite(l).arg \in Destroyed) =>
                /\ m_service[l] = LastWrite(l).arg
                /\ (Returned(l) =>
                       /\ lastCall.ret = LastWrite(l).arg
                       /\ lastCall.raised = "none"))
    /\ [][lastCall'.op = "destroy" =>
             /\ m_service' = m_service
             /\ lastCall'.raised = "none"]_vars

C13_Witness ==
    /\ Returned("Audio")
    /\ lastCall.ret = DbInstance("ConsoleAudio", 1)
    /\ lastCall.ret # NullServiceAddr("Audio")
    /\ [obj |-> DbInstance("ConsoleAudio", 1), bound |-> {"Audio"}]
           \in destroyed
    /\ writes["Audio"] =
           <<[op |-> "init", arg |-> NullPtr],
             [op |-> "provide", arg |-> DbInstance("ConsoleAudio", 1)]>>
    /\ m_service["Audio"] = DbInstance("ConsoleAudio", 1)

\* Both threads' provide() calls have completed.
Joined == thr.loc # "" /\ \A t \in Threads : thr.pc[t] = "done"

\* C12 (as claimed): once two concurrent provide(a) and provide(b) on the
\* same initialised Locator have both completed, m_service is a or b in
\* every interleaving, and getService() returns a or b.
C12_ConcurrentProvideAOrB ==
    Joined =>
        /\ m_service[thr.loc] \in {thr.arg[1], thr.arg[2]}
        /\ (Returned(thr.loc) => lastCall.ret \in {thr.arg[1], thr.arg[2]})

\* C12 (amended): when the two threads' stores to m_service did not
\* overlap, then once both provide() calls have completed m_service is
\* the argument of the call that completed last (so a or b), and
\* getService() returns it.
C12_OrderedProvideLastWins ==
    (Joined /\ ~thr.race) =>
        /\ m_service[thr.loc] = thr.arg[thr.last]
        /\ m_service[thr.loc] \in {thr.arg[1], thr.arg[2]}
        /\ (Returned(thr.loc) => lastCall.ret = thr.arg[thr.last])

C12_Witness ==
    /\ Joined /\ ~thr.race
    /\ thr.loc = "Audio"
    /\ thr.arg[1] = DbInstance("ConsoleAudio", 1)
    /\ thr.arg[2] = <<"ext", "ConsoleAudio", 1>>
    /\ thr.last = 1
    /\ Returned("Audio")
    /\ lastCall.ret = DbInstance("ConsoleAudio", 1)

=============================================================================
